---- MODULE Spec2Model ----
(***************************************************************************)
(* A model of PyCopasi: the Copasi model editor (copasi.py), the MCA sweep *)
(* driver (updateMCAOptimizationTarget.py) and the result aggregator       *)
(* (extractFluxConcFromResults.py).                                        *)
(*                                                                         *)
(* The document text is modelled as the sequence of the text regions the   *)
(* editor's regular expressions can match ("tokens"); every region keeps   *)
(* the parts of its text a pattern reads or a replacement writes.  Strings *)
(* the code inspects character by character (file names, bracket indices,  *)
(* user-supplied list elements) are sequences of one-character strings.    *)
(***************************************************************************)
EXTENDS Integers, Sequences, FiniteSets, TLC

None == "None"

(***************************************************************************)
(* Bounds of the model.                                                    *)
(***************************************************************************)
MaxTokens == 2
MaxLines == 4
MaxList == 2
MaxRefs == 2
MaxRequested == 2
MaxFiles == 2
MaxResultLines == 4
MaxReports == 2
MaxItems == 2
MaxTargets == 2
MaxReaderLines == 3
MaxSaves == 1

(***************************************************************************)
(* Characters.                                                             *)
(***************************************************************************)
DigitChars == {"0", "1", "2", "3", "4", "5", "6", "7", "8", "9"}
AsciiLetters == {"a", "b", "c", "l", "m", "p", "r", "s", "t", "x", "A", "B", "R"}
\* Letters and digits outside ASCII, for which str.isalnum() is true too.
NonAsciiAlnum == {"U+00E9", "U+00B2"}
OtherChars == {" ", "!", "-", "+", "U+0022"}
whitespace == {" "}

isalnum(c) == c \in DigitChars \cup AsciiLetters \cup NonAsciiAlnum

keepcharacters == {".", "_", "/"}

\* ''.join(c for c in filename if c.isalnum() or c in keepcharacters)
getValidFilename(filename) ==
    SelectSeq(filename, LAMBDA c : isalnum(c) \/ c \in keepcharacters)

DigitOf(n) ==
    CASE n = 0 -> "0" [] n = 1 -> "1" [] n = 2 -> "2" [] n = 3 -> "3"
      [] n = 4 -> "4" [] n = 5 -> "5" [] n = 6 -> "6" [] n = 7 -> "7"
      [] n = 8 -> "8" [] n = 9 -> "9"

RECURSIVE NatStr(_)
NatStr(n) == IF n < 10 THEN <<DigitOf(n)>>
             ELSE NatStr(n \div 10) \o <<DigitOf(n % 10)>>

\* str(n) of a Python int
str(n) == IF n < 0 THEN <<"-">> \o NatStr(0 - n) ELSE NatStr(n)

\* \d* and \d+
AllDigits(s) == \A i \in DOMAIN s : s[i] \in DigitChars
SomeDigits(s) == Len(s) > 0 /\ AllDigits(s)

(***************************************************************************)
(* The text regions of a document.                                         *)
(***************************************************************************)
testedVersions == {"4.14 (Build 89)", "4.15 (Build 95)"}

\* <!-- generated with COPASI <version> (http://www.copasi.org)
Comment(v) == [k |-> "comment", version |-> v]
\* [<l>][<r>] outside an Array= reference
Pair(l, r) == [k |-> "pair", l |-> l, r |-> r]
\* Array=<phrase>[<l>][<r>]
Array(phrase, l, r) == [k |-> "array", phrase |-> phrase, l |-> l, r |-> r]
\* target="<value>"
Target(value) == [k |-> "target", value |-> value]
\* <Parameter name="Subtask" type="cn" value="CN=Root,Vector=TaskList[<task>]"/>
Subtask(task) == [k |-> "subtask", task |-> task]
\* <Parameter name="Maximize" type="bool" value="<value>"/>
Maximize(value) == [k |-> "maximize", value |-> value]
\* <ParameterGroup name="OptimizationItem"> ... </ParameterGroup>; its ObjectCN is
\* <prefix>[<name>]<middle>Parameter=<parameter><tail> for a reaction parameter
\* and <prefix>[<name>]<tail> (parameter None) for a value.
Item(name, parameter, tail, lower, start, upper) ==
    [k |-> "item", name |-> name, parameter |-> parameter, tail |-> tail,
     lower |-> lower, start |-> start, upper |-> upper]
\* Reactions[<reaction>],ParameterGroup=<g>,Parameter=<parameter>" value="<value>"
RParam(reaction, parameter, value) ==
    [k |-> "rparam", reaction |-> reaction, parameter |-> parameter, value |-> value]
\* <Task ... name="Optimization" ... <Method name="<method>" ...> ... </Method>
Task(method) == [k |-> "task", method |-> method]

TokenUniverse ==
    { Comment("4.14 (Build 89)"), Comment("4.16 (Build 104)"),
      Pair(<<"0">>, <<"1">>),
      Array("Scaled elasticities", <<"0">>, <<"1">>),
      Array("Scaled fluxes", <<>>, <<>>),
      Target(<<"x", ".", "t">>), Target(<<>>),
      Subtask("Steady-State"),
      Maximize("1"),
      Item(<<"R", "1">>, "k1", ",Reference=Value", "1", "2", "3"),
      Item(<<"R", "1">>, None, ",Reference=InitialValue", "1", "2", "3"),
      RParam(<<"R", "1">>, "k1", "0.1"),
      Task("Random Search") }

RECURSIVE SeqsUpTo(_, _)
SeqsUpTo(S, n) ==
    IF n = 0 THEN {<<>>}
    ELSE LET shorter == SeqsUpTo(S, n - 1)
         IN  shorter \cup {Append(s, x) : s \in shorter, x \in S}

Documents == SeqsUpTo(TokenUniverse, MaxTokens)

(***************************************************************************)
(* State.                                                                  *)
(***************************************************************************)
VARIABLES
    \* The model editor (copasi.py).
    readable,   \* whether open(self.filename) succeeds
    content,    \* self.content, as the text regions the mutators match
    version,    \* self.version
    status,     \* "unbuilt" | "ready" | "fatal" (sys.exit(1)) | "crashed" (uncaught exception)
    reports,    \* the _errorReport calls of the last operation
    last,       \* the last operation: its name, its arguments, its number of matches
    ret,        \* the value the last operation returned
    \* The read accessors (copasi.py), which scan self.content.split('\n').
    lines,      \* the lines of the document
    accessed,   \* the accessor that ran, with its outcome: [op, exit, value]
    \* Copasi.turnToNumbers, called on its own.
    mylist,         \* the list as passed
    referenceList,  \* the tuple of names
    turned,         \* the call that ran, with its outcome: [op, exit, value]
    \* The MCA sweep driver (updateMCAOptimizationTarget.py).
    pc,             \* the statement the driver stands at
    jobarray,       \* args.jobarray
    objLeft,        \* args.objLeft, the rows as split at the commas
    objRight,       \* args.objRight, the columns as split at the commas
    reactions,      \* copasi.getReactions()
    metabolites,    \* copasi.getMetabolites()
    mcatype,
    lefttype,
    righttype,
    objectiveleft,
    objectiveright,
    leftAt,         \* the position in objectiveleft of objleft
    rightAt,        \* the position in objectiveright of objright
    jobNumber,      \* i
    outfilebase,
    execList,
    disk,           \* the files written, by path
    \* The result aggregator (extractFluxConcFromResults.py).
    fileSystem,     \* the result files, by path
    fileArgs,       \* the paths passed to get_tables
    tables,         \* the call that ran, with its outcome: [op, exit, value]
    \* _get_values_from_single_file, called on its own.
    resultText,     \* f, the text of one result file
    scanned,        \* the call that ran, with its outcome: [op, exit, value]
    \* The sweep summarizer (extractMCAOptimizationResults.py).
    argv,           \* sys.argv[1:]
    reportFiles,    \* the report files, by path
    summarized      \* the run, with its outcome: [op, exit, value]

editorVars == <<readable, content, version, status, reports, last, ret>>
accessorVars == <<lines, accessed>>
converterVars == <<mylist, referenceList, turned>>
driverInputs == <<jobarray, objLeft, objRight, reactions, metabolites>>
driverTypes == <<mcatype, lefttype, righttype>>
driverLoop == <<leftAt, rightAt, jobNumber, outfilebase, execList, disk>>
driverVars == <<pc, driverInputs, driverTypes, objectiveleft, objectiveright, driverLoop>>
tableVars == <<fileSystem, fileArgs, tables>>
scanVars == <<resultText, scanned>>
summaryVars == <<argv, reportFiles, summarized>>

vars == <<editorVars, accessorVars, converterVars, driverVars, tableVars, scanVars,
          summaryVars>>

\* _errorReport(text, fatal)
errorReport(text, fatal) == [text |-> text, fatal |-> fatal]

\* re.subn(pattern, repl, self.content): (new_string, number_of_subs_made), for
\* the set hits of the positions the pattern matches and the replacement repl[i]
\* of each.
subn(hits, repl, doc) ==
    [new |-> [i \in DOMAIN doc |-> IF i \in hits THEN repl[i] ELSE doc[i]],
     n   |-> Cardinality(hits)]

RECURSIVE Without(_, _)
Without(doc, hits) ==
    IF doc = <<>> THEN <<>>
    ELSE LET front == Without(SubSeq(doc, 1, Len(doc) - 1), hits)
         IN  IF Len(doc) \in hits THEN front ELSE Append(front, doc[Len(doc)])

\* re.subn(pattern, '', self.content)
subnDelete(hits, doc) ==
    [new |-> Without(doc, hits),
     n   |-> Cardinality(hits)]

Call(op, args, n) == [op |-> op, args |-> args, n |-> n]

\* The operation returns to its caller with self.content = newContent.
Return(op, args, n, newContent, rep, value) ==
    /\ content' = newContent
    /\ status' = "ready"
    /\ reports' = rep
    /\ last' = Call(op, args, n)
    /\ ret' = value
    /\ UNCHANGED <<readable, version>>

\* _errorReport(text, fatal = True): sys.exit(1) before self.content is assigned.
Abort(op, args, n, text) ==
    /\ status' = "fatal"
    /\ reports' = <<errorReport(text, TRUE)>>
    /\ last' = Call(op, args, n)
    /\ ret' = None
    /\ UNCHANGED <<readable, content, version>>

\* An exception no handler catches ends the process with a traceback.
Crash(op, args, exc) ==
    /\ status' = "crashed"
    /\ reports' = <<>>
    /\ last' = Call(op, args, -1)
    /\ ret' = exc
    /\ UNCHANGED <<readable, content, version>>

(***************************************************************************)
(* Construction.                                                           *)
(***************************************************************************)
\* re.search(r'<!-- generated with COPASI (...) \(http://www.copasi.org\)', content)
VersionMatches(doc) == {i \in DOMAIN doc : doc[i].k = "comment"}

HasVersionMarker(doc) == VersionMatches(doc) # {}

FirstOf(S) == CHOOSE i \in S : \A j \in S : i <= j

getVersion(doc) ==
    IF HasVersionMarker(doc) THEN doc[FirstOf(VersionMatches(doc))].version ELSE None

checkVersion(v) == v \in testedVersions

\* __init__ with the undetermined version reported as fatal.
Construct_FatalVersion ==
    /\ status = "unbuilt"
    /\ IF ~readable \/ ~HasVersionMarker(content)
       THEN /\ status' = "fatal"
            /\ reports' = <<errorReport("cannot be opened", TRUE)>>
            /\ last' = Call("__init__", <<>>, -1)
            /\ UNCHANGED <<readable, content, version, ret>>
       ELSE /\ version' = getVersion(content)
            /\ status' = "ready"
            /\ reports' = IF checkVersion(getVersion(content)) THEN <<>>
                          ELSE <<errorReport("version not supported", FALSE)>>
            /\ last' = Call("__init__", <<>>, -1)
            /\ UNCHANGED <<readable, content, ret>>

\* Copasi.__init__
Construct ==
    /\ status = "unbuilt"
    /\ IF ~readable
       THEN /\ status' = "fatal"
            /\ reports' = <<errorReport("OS Error while reading", TRUE)>>
            /\ last' = Call("__init__", <<>>, -1)
            /\ UNCHANGED <<readable, content, version, ret>>
       ELSE LET v == getVersion(content)
                undetermined == IF HasVersionMarker(content) THEN <<>>
                                ELSE <<errorReport("version could not be determined", FALSE)>>
                unsupported == IF checkVersion(v) THEN <<>>
                               ELSE <<errorReport("version not supported", FALSE)>>
            IN  /\ version' = v
                /\ status' = "ready"
                /\ reports' = undetermined \o unsupported
                /\ last' = Call("__init__", <<>>, -1)
                /\ UNCHANGED <<readable, content, ret>>

(***************************************************************************)
(* Mutators.                                                               *)
(***************************************************************************)
\* '\[\d*\]\[\d*\]'
IndexPairMatch(t) == t.k \in {"pair", "array"} /\ AllDigits(t.l) /\ AllDigits(t.r)

\* Copasi.setMCAOptiParameters
setMCAOptiParameters(objleft, objright) ==
    /\ status = "ready"
    /\ LET args == <<objleft, objright>>
           hits == {i \in DOMAIN content : IndexPairMatch(content[i])}
           reBuffer == subn(hits,
                            [i \in hits |->
                                [content[i] EXCEPT !.l = str(objleft), !.r = str(objright)]],
                            content)
       IN  IF reBuffer.n = 0
           THEN Abort("setMCAOptiParameters", args, 0, "targets could not be replaced")
           ELSE Return("setMCAOptiParameters", args, reBuffer.n, reBuffer.new,
                       IF reBuffer.n > 1
                       THEN <<errorReport("more than one objective changed", FALSE)>>
                       ELSE <<>>,
                       None)

\* '<Parameter name="Maximize" type="bool" value="\d"/>'
MaximizeMatch(t) == t.k = "maximize" /\ t.value \in DigitChars

\* str(int(bool(not minimize)))
MaximizeValue(minimize) == IF minimize THEN "0" ELSE "1"

\* Copasi.setOptiMinMax
setOptiMinMax(minimize, warn) ==
    /\ status = "ready"
    /\ LET args == <<minimize, warn>>
           hits == {i \in DOMAIN content : MaximizeMatch(content[i])}
           reBuffer == subn(hits,
                            [i \in hits |->
                                [content[i] EXCEPT !.value = MaximizeValue(minimize)]],
                            content)
       IN  IF reBuffer.n = 0
           THEN Abort("setOptiMinMax", args, 0, "minimize/maximize could not be set")
           ELSE Return("setOptiMinMax", args, reBuffer.n, reBuffer.new,
                       IF reBuffer.n > 1 /\ warn
                       THEN <<errorReport("minimize/maximize changed multiple times", FALSE)>>
                       ELSE <<>>,
                       None)

types ==
    [CCC  |-> "Scaled concentration control coefficients",
     FCC  |-> "Scaled flux control coefficients",
     E    |-> "Scaled elasticities",
     uCCC |-> "Unscaled concentration control coefficients",
     uFCC |-> "Unscaled flux control coefficients",
     uE   |-> "Unscaled elasticities"]

\* r'Array=[^\[]+\[(\d+)\]\[(\d+)\]'
TargetTypeMatch(t) == t.k = "array" /\ SomeDigits(t.l) /\ SomeDigits(t.r)

\* Copasi.setOptimizationTargetType
setOptimizationTargetType(optiType) ==
    /\ status = "ready"
    /\ IF optiType \notin DOMAIN types
       THEN Abort("setOptimizationTargetType", <<optiType>>, -1, "no valid target type")
       ELSE LET hits == {i \in DOMAIN content : TargetTypeMatch(content[i])}
                reBuffer == subn(hits,
                                 [i \in hits |->
                                     [content[i] EXCEPT !.phrase = types[optiType]]],
                                 content)
            IN  IF reBuffer.n = 0
                THEN Abort("setOptimizationTargetType", <<optiType>>, 0,
                           "target type could not be set")
                ELSE Return("setOptimizationTargetType", <<optiType>>, reBuffer.n,
                            reBuffer.new,
                            IF reBuffer.n > 1
                            THEN <<errorReport("more than one target type changed", FALSE)>>
                            ELSE <<>>,
                            None)

methods == [EP |-> "Evolutionary Programming", PS |-> "Particle Swarm"]

\* r'<Task ([^n]+) name="Optimization"([\S\s]+?)<Method [\S\s]+?</Method>'
MethodMatch(t) == t.k = "task"

\* Copasi.setOptimizationMethod
setOptimizationMethod(method) ==
    /\ status = "ready"
    /\ IF method \notin DOMAIN methods
       THEN Abort("setOptimizationMethod", <<method>>, -1, "method not implemented")
       ELSE LET hits == {i \in DOMAIN content : MethodMatch(content[i])}
                reBuffer == subn(hits,
                                 [i \in hits |->
                                     [content[i] EXCEPT !.method = methods[method]]],
                                 content)
            IN  IF reBuffer.n = 0
                THEN Abort("setOptimizationMethod", <<method>>, 0,
                           "method could not be changed")
                ELSE IF reBuffer.n > 1
                THEN Abort("setOptimizationMethod", <<method>>, reBuffer.n,
                           "method changed more than once")
                ELSE Return("setOptimizationMethod", <<method>>, reBuffer.n,
                            reBuffer.new, <<>>, None)

\* r'<Parameter name="Subtask" type="cn" value="CN=Root,Vector=TaskList\[[^\]]+\]"/>'
SubtaskMatch(t) == t.k = "subtask" /\ t.task # ""

\* setTaskToMCA without its zero-match abort.
setTaskToMCA_NoAbort ==
    /\ status = "ready"
    /\ LET hits == {i \in DOMAIN content : SubtaskMatch(content[i])}
           reBuffer == subn(hits,
                            [i \in hits |->
                                [content[i] EXCEPT !.task = "Metabolic Control Analysis"]],
                            content)
       IN  Return("setTaskToMCA", <<>>, reBuffer.n, reBuffer.new,
                  IF reBuffer.n # 1
                  THEN <<errorReport("target could not be set to MCA", FALSE)>>
                  ELSE <<>>,
                  None)

\* Copasi.setTaskToMCA
setTaskToMCA ==
    /\ status = "ready"
    /\ LET hits == {i \in DOMAIN content : SubtaskMatch(content[i])}
           reBuffer == subn(hits,
                            [i \in hits |->
                                [content[i] EXCEPT !.task = "Metabolic Control Analysis"]],
                            content)
       IN  IF reBuffer.n = 0
           THEN Abort("setTaskToMCA", <<>>, 0, "target could not be set to MCA")
           ELSE Return("setTaskToMCA", <<>>, reBuffer.n, reBuffer.new,
                       IF reBuffer.n > 1
                       THEN <<errorReport("changed to MCA more than once", FALSE)>>
                       ELSE <<>>,
                       None)

\* 'target="[^"]+"'
ReportTargetMatch(t) == t.k = "target" /\ Len(t.value) > 0

\* setReportFileName with the several-matches report made whatever warn is.
setReportFileName_AlwaysWarn(reportFile, warn) ==
    /\ status = "ready"
    /\ LET args == <<reportFile, warn>>
           sanitized == getValidFilename(reportFile)
           hits == {i \in DOMAIN content : ReportTargetMatch(content[i])}
           reBuffer == subn(hits,
                            [i \in hits |->
                                [content[i] EXCEPT !.value = sanitized]],
                            content)
       IN  IF reBuffer.n = 0
           THEN Abort("setReportFileName", args, 0, "output filename could not be changed")
           ELSE Return("setReportFileName", args, reBuffer.n, reBuffer.new,
                       IF reBuffer.n > 1
                       THEN <<errorReport("output filename changed on several occurances", FALSE)>>
                       ELSE <<>>,
                       None)

\* Copasi.setReportFileName
setReportFileName(reportFile, warn) ==
    /\ status = "ready"
    /\ LET args == <<reportFile, warn>>
           sanitized == getValidFilename(reportFile)
           hits == {i \in DOMAIN content : ReportTargetMatch(content[i])}
           reBuffer == subn(hits,
                            [i \in hits |->
                                [content[i] EXCEPT !.value = sanitized]],
                            content)
       IN  IF reBuffer.n = 0
           THEN Abort("setReportFileName", args, 0, "output filename could not be changed")
           ELSE Return("setReportFileName", args, reBuffer.n, reBuffer.new,
                       IF reBuffer.n > 1 /\ warn
                       THEN <<errorReport("output filename changed on several occurances", FALSE)>>
                       ELSE <<>>,
                       None)

\* A name is put into the pattern as it is, so it is read as a regular
\* expression: "." stands for any character and a pair of parentheses is a group
\* that matches what it encloses, not the parentheses.
RECURSIVE NameMatches(_, _)
NameMatches(pattern, text) ==
    IF pattern = <<>> THEN text = <<>>
    ELSE IF pattern[1] \in {"(", ")"} THEN NameMatches(Tail(pattern), text)
    ELSE /\ text # <<>>
         /\ pattern[1] = "." \/ pattern[1] = text[1]
         /\ NameMatches(Tail(pattern), Tail(text))

\* The toSearch patterns of setOptimizationItem and delOptimizationItem: with no
\* parameter, any item whose ObjectCN holds [<name>] followed by at least one
\* character; with a parameter, one that also holds Parameter=<parameter> followed
\* by at least one character.
ItemMatch(t, name, parameter) ==
    /\ t.k = "item"
    /\ NameMatches(name, t.name)
    /\ IF parameter = None THEN t.tail # ""
       ELSE t.parameter = parameter /\ t.tail # ""

\* The character '\3' (octal escape of a plain string literal) that line 530
\* writes where the back-reference to group 3 was meant.
Chr3 == "U+0003"

\* toReplace of setOptimizationItem
ItemReplace(t, name, lower, start, upper, parameter) ==
    IF parameter = None
    THEN [t EXCEPT !.name = name, !.lower = lower, !.start = start, !.upper = upper]
    ELSE [t EXCEPT !.name = name, !.lower = lower, !.start = start, !.upper = upper,
                   !.tail = Chr3]

\* Copasi.setOptimizationItem
setOptimizationItem(name, lower, start, upper, parameter) ==
    /\ status = "ready"
    /\ LET args == <<name, lower, start, upper, parameter>>
           hits == {i \in DOMAIN content : ItemMatch(content[i], name, parameter)}
           reBuffer == subn(hits,
                            [i \in hits |->
                                ItemReplace(content[i], name, lower, start, upper,
                                            parameter)],
                            content)
       IN  IF reBuffer.n = 0
           THEN Abort("setOptimizationItem", args, 0, "item could not be changed")
           ELSE Return("setOptimizationItem", args, reBuffer.n, reBuffer.new,
                       IF reBuffer.n > 1
                       THEN <<errorReport("item changed on several occurances", FALSE)>>
                       ELSE <<>>,
                       None)

\* delOptimizationItem with the several-matches report left non-fatal, as in the
\* other mutators.
delOptimizationItem_WarnOnly(name, parameter) ==
    /\ status = "ready"
    /\ LET args == <<name, parameter>>
           hits == {i \in DOMAIN content : ItemMatch(content[i], name, parameter)}
           reBuffer == subnDelete(hits, content)
       IN  IF reBuffer.n = 0
           THEN Abort("delOptimizationItem", args, 0, "item to delete could not be found")
           ELSE Return("delOptimizationItem", args, reBuffer.n, reBuffer.new,
                       IF reBuffer.n > 1
                       THEN <<errorReport("item deleted on several occurances", FALSE)>>
                       ELSE <<>>,
                       None)

\* Copasi.delOptimizationItem
delOptimizationItem(name, parameter) ==
    /\ status = "ready"
    /\ LET args == <<name, parameter>>
           hits == {i \in DOMAIN content : ItemMatch(content[i], name, parameter)}
           reBuffer == subnDelete(hits, content)
       IN  IF reBuffer.n = 0
           THEN Abort("delOptimizationItem", args, 0, "item to delete could not be found")
           ELSE IF reBuffer.n > 1
           THEN Abort("delOptimizationItem", args, reBuffer.n,
                      "item deleted on several occurances")
           ELSE Return("delOptimizationItem", args, reBuffer.n, reBuffer.new, <<>>, None)

\* r'Reactions\[<reaction>\],ParameterGroup=([^,]+),Parameter=<parameter>" value="[^"]+"'
ParameterMatch(t, reaction, parameter) ==
    /\ t.k = "rparam"
    /\ NameMatches(reaction, t.reaction)
    /\ t.parameter = parameter
    /\ t.value # ""

\* Copasi.setParameter
setParameter(reaction, parameter, value) ==
    /\ status = "ready"
    /\ LET args == <<reaction, parameter, value>>
           hits == {i \in DOMAIN content : ParameterMatch(content[i], reaction, parameter)}
           reBuffer == subn(hits,
                            [i \in hits |->
                                [content[i] EXCEPT !.reaction = reaction, !.value = value]],
                            content)
       IN  Return("setParameter", args, reBuffer.n, reBuffer.new,
                  IF reBuffer.n = 0
                  THEN <<errorReport("parameter could not be found", FALSE)>>
                  ELSE IF reBuffer.n > 1
                  THEN <<errorReport("parameter found multiple times", FALSE)>>
                  ELSE <<>>,
                  None)

(***************************************************************************)
(* Analysis-type detection.                                                *)
(***************************************************************************)
outcomes ==
    [x \in {"concentration control coefficients", "elasticities",
            "flux control coefficients"} |->
        CASE x = "concentration control coefficients" -> "ccc"
          [] x = "elasticities" -> "e"
          [] x = "flux control coefficients" -> "fcc"]

\* The text between "caled " and the next "[" of an Array= phrase.
AfterCaled(phrase) ==
    CASE phrase \in {"Scaled concentration control coefficients",
                     "Unscaled concentration control coefficients"}
            -> "concentration control coefficients"
      [] phrase \in {"Scaled flux control coefficients",
                     "Unscaled flux control coefficients"}
            -> "flux control coefficients"
      [] phrase \in {"Scaled elasticities", "Unscaled elasticities"} -> "elasticities"
      [] phrase = "Scaled fluxes" -> "fluxes"

\* re.search('caled ([^\[]+)\[', self.content)
CaledMatches(doc) == {i \in DOMAIN doc : doc[i].k = "array"}

\* Copasi.getMCAType: the handler catches AttributeError (no match) and
\* IndexError; a phrase that is no key of outcomes raises KeyError.
getMCAType ==
    /\ status = "ready"
    /\ IF CaledMatches(content) = {}
       THEN Return("getMCAType", <<>>, 0, content, <<>>, None)
       ELSE LET group1 == AfterCaled(content[FirstOf(CaledMatches(content))].phrase)
            IN  IF group1 \in DOMAIN outcomes
                THEN Return("getMCAType", <<>>, 1, content, <<>>, outcomes[group1])
                ELSE Crash("getMCAType", <<>>, "KeyError")

(***************************************************************************)
(* The editor, driven with every call on every document.                   *)
(***************************************************************************)
SampleTargets == {<<12, 0>>, <<-1, 0>>}
SampleTargetTypes == {"FCC", "XYZ"}
SampleMethods == {"EP", "PS", "GA"}
SampleReportNames ==
    { <<"a", ".", "t">>, <<"a", " ", "b">>, <<"!">> }
SampleItemNames == {<<"R", "1">>, <<"R", "2">>}
SampleParameters == {None, "k1"}

\* Documents of report targets, and file names that hold characters outside
\* ASCII.
TargetUniverse == { Target(<<"x", ".", "t">>), Target(<<"b">>), Comment("4.14 (Build 89)") }
TargetDocuments == SeqsUpTo(TargetUniverse, MaxTargets)
SampleFileNames ==
    { <<"a", ".", "t">>, <<"a", " ", "b">>, <<"!">>, <<"U+00E9", ".", "t">> }

\* Documents of optimization items, and names that hold characters a regular
\* expression reads specially.
ItemUniverse ==
    { Item(<<"R", "1">>, None, ",Reference=InitialValue", "1", "2", "3"),
      Item(<<"R", "1">>, "k1", ",Reference=Value", "1", "2", "3"),
      Item(<<"R", ".">>, None, ",Reference=InitialValue", "1", "2", "3"),
      Item(<<"A", "(", "c", ")">>, None, ",Reference=InitialValue", "1", "2", "3") }
ItemDocuments == SeqsUpTo(ItemUniverse, MaxItems)
SampleItemPatterns == { <<"R", "1">>, <<"R", ".">>, <<"A", "(", "c", ")">> }


(***************************************************************************)
(* Read accessors.  A line keeps the tag it carries and the attribute      *)
(* values the accessors' patterns read.                                    *)
(***************************************************************************)
\* <Compartment key="<key>" name="<name>" ...>
CompartmentLine(key, name) == [tag |-> "Compartment", key |-> key, name |-> name]
\* <Metabolite key="Metabolite_<key>" name="<name>" simulationType="<simulationType>"
\*  compartment="<compartment>" ...>
MetaboliteLine(key, name, simulationType, compartment) ==
    [tag |-> "Metabolite", key |-> key, name |-> name,
     simulationType |-> simulationType, compartment |-> compartment]
\* <StateTemplateVariable objectReference="<kind>_<key>"/>
StateTemplateVariableLine(kind, key) ==
    [tag |-> "StateTemplateVariable", kind |-> kind, key |-> key]

\* A dictionary assignment that keeps the value a key already has.
DictSet_KeepFirst(dict, key, value) == dict @@ (key :> value)

\* dict[key] = value
DictSet(dict, key, value) == (key :> value) @@ dict

\* 'key="(Compartment_[0-9]+)" name="([^"]+)"'
CompartmentMatch(line) == line.tag = "Compartment" /\ line.name # ""

RECURSIVE getCompartmentsFrom(_, _, _)
getCompartmentsFrom(doc, n, compartments) ==
    IF n > Len(doc) THEN compartments
    ELSE getCompartmentsFrom(doc, n + 1,
            IF CompartmentMatch(doc[n])
            THEN DictSet(compartments, doc[n].key, doc[n].name)
            ELSE compartments)

\* Copasi.getCompartments
getCompartments(doc) == getCompartmentsFrom(doc, 1, <<>>)

\* 'key="Metabolite_([0-9]+)" name="([^"]+)" simulationType="reactions"
\*  compartment="(Compartment_[0-9]+)"'
MetaboliteMatch(line) ==
    line.tag = "Metabolite" /\ line.name # "" /\ line.simulationType = "reactions"

\* reResult.group(2) + '_' + compartments[reResult.group(3)], or reResult.group(2)
DisplayName(line, compartments, appendComp) ==
    IF appendComp THEN <<line.name, "_", compartments[line.compartment]>>
    ELSE <<line.name>>

\* The loop of getMetabolites from line n on: one pass that fills metaBuffer at a
\* <Metabolite line and reads it at a <StateTemplateVariable line.
RECURSIVE getMetabolitesFrom(_, _, _, _, _)
getMetabolitesFrom(doc, n, compartments, metaBuffer, metaboliteList) ==
    IF n > Len(doc) THEN [exit |-> "return", value |-> metaboliteList]
    ELSE LET line == doc[n]
             appendComp == Cardinality(DOMAIN compartments) > 1
         IN  IF line.tag = "Metabolite"
             THEN IF MetaboliteMatch(line)
                  THEN IF appendComp /\ line.compartment \notin DOMAIN compartments
                       THEN [exit |-> "crash", value |-> "KeyError"]
                       ELSE getMetabolitesFrom(doc, n + 1, compartments,
                                DictSet(metaBuffer, line.key,
                                        DisplayName(line, compartments, appendComp)),
                                metaboliteList)
                  ELSE getMetabolitesFrom(doc, n + 1, compartments, metaBuffer, metaboliteList)
             ELSE IF line.tag = "StateTemplateVariable"
                     /\ line.kind = "Metabolite" /\ line.key \in DOMAIN metaBuffer
             THEN getMetabolitesFrom(doc, n + 1, compartments, metaBuffer,
                                     Append(metaboliteList, metaBuffer[line.key]))
             ELSE getMetabolitesFrom(doc, n + 1, compartments, metaBuffer, metaboliteList)

\* Copasi.getMetabolites
getMetabolites(doc) == getMetabolitesFrom(doc, 1, getCompartments(doc), <<>>, <<>>)

Accessed(op, outcome) == [op |-> op, exit |-> outcome.exit, value |-> outcome.value]

CallGetMetabolites ==
    /\ accessed.op = "none"
    /\ accessed' = Accessed("getMetabolites", getMetabolites(lines))
    /\ UNCHANGED lines

CallGetCompartments ==
    /\ accessed.op = "none"
    /\ accessed' = Accessed("getCompartments",
                            [exit |-> "return", value |-> getCompartments(lines)])
    /\ UNCHANGED lines

\* <Model key="Model_1" name="<name>" ...>; name "" stands for a line without a
\* name attribute.
ModelLine(name) == [tag |-> "Model", name |-> name]
\* <Reaction key="<key>" name="<name>" ...> and <ReactionGlyph key="<key>"
\* name="<name>" ...>; a key is <<prefix, digits>>.
ReactionLine(tag, key, name) == [tag |-> tag, key |-> key, name |-> name]

\* '<Model ' in line
HasModelTag(line) == line.tag = "Model"
\* 'name="([^"]+)"'
TitleMatch(line) == line.name # ""

\* The loop of getTitle from line n on; title is unbound until a '<Model ' line
\* is met.
RECURSIVE getTitleFrom(_, _)
getTitleFrom(doc, n) ==
    IF n > Len(doc)
    THEN [exit |-> "crash", value |-> "UnboundLocalError", reports |-> <<>>]
    ELSE IF HasModelTag(doc[n])
         THEN IF ~TitleMatch(doc[n])
              THEN [exit |-> "return", value |-> "!No title found!",
                    reports |-> <<errorReport("I could not find a title.", FALSE)>>]
              ELSE [exit |-> "return", value |-> doc[n].name, reports |-> <<>>]
         ELSE getTitleFrom(doc, n + 1)

\* Copasi.getTitle
getTitle(doc) == getTitleFrom(doc, 1)

\* '<Reaction' in line
HasReactionTag(line) == line.tag \in {"Reaction", "ReactionGlyph"}
\* 'key="Reaction_[0-9]+" name="([^"]+)"'
ReactionMatch(line) ==
    line.key[1] = "Reaction_" /\ line.key[2] # "" /\ line.name # ""

\* The loop of getReactions from line n on.
RECURSIVE getReactionsFrom(_, _, _)
getReactionsFrom(doc, n, reactionList) ==
    IF n > Len(doc) THEN [exit |-> "return", value |-> reactionList]
    ELSE IF HasReactionTag(doc[n])
         THEN IF ReactionMatch(doc[n])
              THEN getReactionsFrom(doc, n + 1, Append(reactionList, doc[n].name))
              ELSE [exit |-> "fatal", value |-> None]
         ELSE getReactionsFrom(doc, n + 1, reactionList)

\* getReactions passing over the lines its pattern does not match.
getReactions_SkipUnmatched(doc) ==
    LET Named(line) == HasReactionTag(line) /\ ReactionMatch(line)
        named == SelectSeq(doc, Named)
    IN  [exit |-> "return", value |-> [n \in DOMAIN named |-> named[n].name]]

\* Copasi.getReactions
getReactions(doc) == getReactionsFrom(doc, 1, <<>>)

CallGetTitle ==
    /\ accessed.op = "none"
    /\ LET outcome == getTitle(lines)
       IN  /\ accessed' = Accessed("getTitle", outcome)
           /\ reports' = outcome.reports
    /\ UNCHANGED lines

CallGetReactions ==
    /\ accessed.op = "none"
    /\ LET outcome == getReactions(lines)
       IN  /\ accessed' = Accessed("getReactions", outcome)
           /\ reports' = IF outcome.exit = "fatal"
                         THEN <<errorReport("failure in finding reactions", TRUE)>>
                         ELSE <<>>
    /\ UNCHANGED lines

\* Lines of a model file as the accessors meet them: declarations, declarations
\* whose attributes the patterns do not match, and layout glyphs.
ReaderUniverse ==
    { CompartmentLine("Compartment_0", "cyt"), CompartmentLine("Compartment_0", "mit"),
      CompartmentLine("Compartment_1", "mit"), CompartmentLine("Compartment_1", ""),
      [tag |-> "CompartmentGlyph", key |-> "Layout_2", name |-> "cyt"],
      ModelLine("T"), ModelLine(""),
      ReactionLine("Reaction", <<"Reaction_", "0">>, "R1"),
      ReactionLine("Reaction", <<"Reaction_", "1">>, "R2"),
      ReactionLine("ReactionGlyph", <<"Layout_", "3">>, "R1") }
ReaderDocuments == SeqsUpTo(ReaderUniverse, MaxReaderLines)

\* The lines of a model file: each declared key is declared once, and a
\* metabolite's compartment is a declared compartment.
LineUniverse ==
    { CompartmentLine("Compartment_0", "cyt"), CompartmentLine("Compartment_1", "mit"),
      MetaboliteLine("1", "A", "reactions", "Compartment_0"),
      MetaboliteLine("2", "B", "reactions", "Compartment_1"),
      MetaboliteLine("3", "C", "fixed", "Compartment_0"),
      StateTemplateVariableLine("Metabolite", "1"),
      StateTemplateVariableLine("Metabolite", "2"),
      StateTemplateVariableLine("Metabolite", "3"),
      StateTemplateVariableLine("Compartment", "0") }

Declarations(doc) == {n \in DOMAIN doc : doc[n].tag \in {"Compartment", "Metabolite"}}

WellFormedLines(doc) ==
    /\ \A m, n \in Declarations(doc) : doc[m] = doc[n] => m = n
    /\ \A n \in DOMAIN doc :
          doc[n].tag = "Metabolite" =>
             \E m \in DOMAIN doc :
                doc[m].tag = "Compartment" /\ doc[m].key = doc[n].compartment

LineDocuments == {doc \in SeqsUpTo(LineUniverse, MaxLines) : WellFormedLines(doc)}

(***************************************************************************)
(* Specifications.                                                         *)
(***************************************************************************)
(***************************************************************************)
(* turnToNumbers.                                                          *)
(***************************************************************************)
DigitValue(c) == CHOOSE n \in 0..9 : DigitOf(n) = c

RECURSIVE DecimalValue(_)
DecimalValue(digits) ==
    IF digits = <<>> THEN 0
    ELSE 10 * DecimalValue(SubSeq(digits, 1, Len(digits) - 1))
         + DigitValue(digits[Len(digits)])

\* str.strip()
RECURSIVE strip(_)
strip(s) ==
    IF s = <<>> THEN s
    ELSE IF s[1] \in whitespace THEN strip(Tail(s))
    ELSE IF s[Len(s)] \in whitespace THEN strip(SubSeq(s, 1, Len(s) - 1))
    ELSE s

\* int(s) of a string: surrounding whitespace is dropped, one sign may lead, and
\* the digits may be grouped by single underscores; anything else raises
\* ValueError (ok = FALSE).
int(s) ==
    LET t == strip(s)
        signed == t # <<>> /\ t[1] \in {"+", "-"}
        body == IF signed THEN Tail(t) ELSE t
        ok == /\ body # <<>>
              /\ \A n \in DOMAIN body :
                    \/ body[n] \in DigitChars
                    \/ /\ body[n] = "_"
                       /\ 1 < n /\ n < Len(body)
                       /\ body[n - 1] \in DigitChars /\ body[n + 1] \in DigitChars
        magnitude == DecimalValue(SelectSeq(body, LAMBDA c : c \in DigitChars))
    IN  [ok |-> ok,
         value |-> IF ~ok THEN 0
                   ELSE IF signed /\ t[1] = "-" THEN 0 - magnitude ELSE magnitude]

\* mylist[n] in referenceList
contains(refs, x) == \E j \in DOMAIN refs : refs[j] = x

\* referenceList.index(x), zero-based, with the last occurrence taken.
RECURSIVE index_Last(_, _)
index_Last(refs, x) ==
    IF refs[Len(refs)] = x THEN Len(refs) - 1
    ELSE index_Last(SubSeq(refs, 1, Len(refs) - 1), x)

\* referenceList.index(x), zero-based
RECURSIVE index(_, _)
index(refs, x) ==
    IF refs[1] = x THEN 0 ELSE 1 + index(Tail(refs), x)

\* The loop of turnToNumbers from position n on; mylist is changed in place.
RECURSIVE turnToNumbersFrom(_, _, _)
turnToNumbersFrom(list, refs, n) ==
    IF n > Len(list) THEN [exit |-> "return", value |-> list]
    ELSE IF int(list[n]).ok
    THEN turnToNumbersFrom([list EXCEPT ![n] = int(list[n]).value], refs, n + 1)
    ELSE IF contains(refs, list[n])
    THEN turnToNumbersFrom([list EXCEPT ![n] = index(refs, list[n])],
                           refs, n + 1)
    ELSE [exit |-> "fatal", value |-> list[n]]

\* Copasi.turnToNumbers
turnToNumbers(list, refs) == turnToNumbersFrom(list, refs, 1)

CallTurnToNumbers ==
    /\ turned.op = "none"
    /\ turned' = Accessed("turnToNumbers", turnToNumbers(mylist, referenceList))
    /\ UNCHANGED <<mylist, referenceList>>

\* The strings a user passes and the names a model holds.
SampleElements ==
    { <<"2">>, <<"-", "1">>, <<"1", "0">>, <<" ", "2">>, <<"1", "_", "0">>,
      <<"_", "1">>, <<>>, <<"A">>, <<"B">> }
SampleNames == { <<"A">>, <<"A", "_", "A">>, <<"2">> }


(***************************************************************************)
(* The MCA sweep driver.                                                   *)
(***************************************************************************)
\* args.infile.replace('.cps', '')
basefile == <<"m">>

\* seq[n] of a Python sequence: a negative n counts from the end.
InRange(seq, n) == 0 - Len(seq) <= n /\ n < Len(seq)
At(seq, n) == IF n < 0 THEN seq[Len(seq) + n + 1] ELSE seq[n + 1]

\* Copasi.saveCopasiFile: open(filename, 'w') succeeds or raises OSError.
saveCopasiFile(filename) ==
    /\ status = "ready"
    /\ LET sanitized == getValidFilename(filename)
       IN  \/ /\ sanitized # <<>>
              /\ disk' = (sanitized :> content) @@ disk
              /\ Return("saveCopasiFile", <<filename>>, -1, content, <<>>, sanitized)
           \/ /\ UNCHANGED disk
              /\ Abort("saveCopasiFile", <<filename>>, -1, "OS Error while writing")

\* The statement after a call of the editor.
After(next) == IF status' = "ready" THEN next ELSE "exited"

\* copasi = Copasi(args.infile)
DriverConstruct ==
    /\ pc = "start"
    /\ Construct
    /\ pc' = After("getMCAType")
    /\ UNCHANGED <<driverInputs, driverTypes, objectiveleft, objectiveright, driverLoop>>

\* mcatype = copasi.getMCAType()
DriverGetMCAType ==
    /\ pc = "getMCAType"
    /\ getMCAType
    /\ pc' = After("dispatch")
    /\ mcatype' = ret'
    /\ UNCHANGED <<driverInputs, lefttype, righttype, objectiveleft, objectiveright,
                   driverLoop>>

all == <<"a", "l", "l">>

\* The choice of lefttype and righttype and the replacement of the keyword "all".
DriverDispatch ==
    /\ pc = "dispatch"
    /\ IF mcatype \in {"ccc", "e", "fcc"}
       THEN LET left == IF mcatype = "ccc" THEN metabolites ELSE reactions
                right == IF mcatype = "e" THEN metabolites ELSE reactions
            IN  /\ lefttype' = left
                /\ righttype' = right
                /\ objectiveleft' = IF objLeft[1] = all THEN left ELSE objLeft
                /\ objectiveright' = IF objRight[1] = all THEN right ELSE objRight
                /\ pc' = "turnToNumbers"
       ELSE /\ pc' = "exit56"
            /\ UNCHANGED <<lefttype, righttype, objectiveleft, objectiveright>>
    /\ UNCHANGED <<editorVars, driverInputs, mcatype, driverLoop>>

\* objectiveleft = copasi.turnToNumbers(objectiveleft, lefttype), then the same
\* for objectiveright.
DriverTurnToNumbers ==
    /\ pc = "turnToNumbers"
    /\ LET left == turnToNumbers(objectiveleft, lefttype)
           right == turnToNumbers(objectiveright, righttype)
       IN  IF left.exit = "fatal"
           THEN /\ Abort("turnToNumbers", <<objectiveleft, lefttype>>, -1,
                         "element was not found")
                /\ pc' = "exited"
                /\ UNCHANGED <<objectiveleft, objectiveright>>
           ELSE IF right.exit = "fatal"
           THEN /\ Abort("turnToNumbers", <<objectiveright, righttype>>, -1,
                         "element was not found")
                /\ pc' = "exited"
                /\ objectiveleft' = left.value
                /\ UNCHANGED objectiveright
           ELSE /\ Return("turnToNumbers", <<objectiveright, righttype>>, -1, content,
                          <<>>, right.value)
                /\ pc' = "loop"
                /\ objectiveleft' = left.value
                /\ objectiveright' = right.value
    /\ UNCHANGED <<driverInputs, driverTypes, driverLoop>>

objleft == objectiveleft[leftAt]
objright == objectiveright[rightAt]

\* The for statements: the next objleft, or the end of the sweep.
LoopNextLeft ==
    /\ pc = "loop"
    /\ \/ /\ leftAt > Len(objectiveleft)
          /\ pc' = "done"
          /\ UNCHANGED <<leftAt, rightAt>>
       \/ /\ leftAt <= Len(objectiveleft)
          /\ objleft < Len(lefttype)
          /\ rightAt > Len(objectiveright)
          /\ leftAt' = leftAt + 1
          /\ rightAt' = 1
          /\ UNCHANGED pc
    /\ UNCHANGED <<editorVars, driverInputs, driverTypes, objectiveleft, objectiveright,
                   jobNumber, outfilebase, execList, disk>>

\* if objleft >= len(lefttype): continue
LoopSkipLeft ==
    /\ pc = "loop"
    /\ leftAt <= Len(objectiveleft)
    /\ objleft >= Len(lefttype)
    /\ leftAt' = leftAt + 1
    /\ rightAt' = 1
    /\ UNCHANGED <<editorVars, pc, driverInputs, driverTypes, objectiveleft,
                   objectiveright, jobNumber, outfilebase, execList, disk>>

\* if objright >= len(righttype): continue; and
\* if objleft == objright and mcatype == 'fcc': continue
LoopSkipRight ==
    /\ pc = "loop"
    /\ leftAt <= Len(objectiveleft)
    /\ objleft < Len(lefttype)
    /\ rightAt <= Len(objectiveright)
    /\ \/ objright >= Len(righttype)
       \/ objright < Len(righttype) /\ objleft = objright /\ mcatype = "fcc"
    /\ rightAt' = rightAt + 1
    /\ UNCHANGED <<editorVars, pc, driverInputs, driverTypes, objectiveleft,
                   objectiveright, leftAt, jobNumber, outfilebase, execList, disk>>

\* outfilebase = basefile + '_' + lefttype[objleft] + '_' + righttype[objright],
\* with '_' + str(i) appended for a job array.
LoopName ==
    /\ pc = "loop"
    /\ leftAt <= Len(objectiveleft)
    /\ objleft < Len(lefttype)
    /\ rightAt <= Len(objectiveright)
    /\ objright < Len(righttype)
    /\ ~(objleft = objright /\ mcatype = "fcc")
    /\ IF InRange(lefttype, objleft) /\ InRange(righttype, objright)
       THEN /\ outfilebase' = basefile \o <<"_">> \o At(lefttype, objleft)
                                 \o <<"_">> \o At(righttype, objright)
                                 \o (IF jobarray THEN <<"_">> \o str(jobNumber) ELSE <<>>)
            /\ pc' = "setMCAOptiParameters"
       ELSE /\ pc' = "IndexError"
            /\ UNCHANGED outfilebase
    /\ UNCHANGED <<editorVars, driverInputs, driverTypes, objectiveleft, objectiveright,
                   leftAt, rightAt, jobNumber, execList, disk>>

\* copasi.setMCAOptiParameters(objleft, objright)
RoundSetMCAOptiParameters ==
    /\ pc = "setMCAOptiParameters"
    /\ setMCAOptiParameters(objleft, objright)
    /\ pc' = After("setTaskToMCA")
    /\ UNCHANGED <<driverInputs, driverTypes, objectiveleft, objectiveright, driverLoop>>

\* copasi.setTaskToMCA()
RoundSetTaskToMCA ==
    /\ pc = "setTaskToMCA"
    /\ setTaskToMCA
    /\ pc' = After("setReportFileName")
    /\ UNCHANGED <<driverInputs, driverTypes, objectiveleft, objectiveright, driverLoop>>

\* copasi.setReportFileName(outfilebase + '.txt')
RoundSetReportFileName ==
    /\ pc = "setReportFileName"
    /\ setReportFileName(outfilebase \o <<".", "t", "x", "t">>, FALSE)
    /\ pc' = After("saveCopasiFile")
    /\ UNCHANGED <<driverInputs, driverTypes, objectiveleft, objectiveright, driverLoop>>

\* execList.append(copasi.saveCopasiFile(outfilebase + '.cps')); i += 1
RoundSave ==
    /\ pc = "saveCopasiFile"
    /\ saveCopasiFile(outfilebase \o <<".", "c", "p", "s">>)
    /\ pc' = After("loop")
    /\ IF status' = "ready"
       THEN /\ execList' = Append(execList, ret')
            /\ jobNumber' = jobNumber + 1
            /\ rightAt' = rightAt + 1
       ELSE UNCHANGED <<execList, jobNumber, rightAt>>
    /\ UNCHANGED <<driverInputs, driverTypes, objectiveleft, objectiveright,
                   leftAt, outfilebase>>

\* The documents, the model's names and the requested rows and columns of a sweep.
SweepDocuments ==
    { <<Array("Scaled flux control coefficients", <<"0">>, <<"1">>),
        Subtask("Steady-State"), Target(<<"x", ".", "t">>)>>,
      <<Array("Scaled elasticities", <<"0">>, <<"1">>),
        Subtask("Steady-State"), Target(<<"x", ".", "t">>)>>,
      <<Array("Scaled concentration control coefficients", <<"0">>, <<"1">>),
        Subtask("Steady-State"), Target(<<"x", ".", "t">>)>>,
      <<Array("Scaled flux control coefficients", <<"0">>, <<"1">>),
        Target(<<"x", ".", "t">>)>>,
      <<Subtask("Steady-State"), Target(<<"x", ".", "t">>)>> }
SampleReactions == { <<<<"A">>, <<"A", "_", "A">>>>, <<<<"A">>, <<"A">>>> }
SampleMetabolites == { <<<<"A", "_", "A">>, <<"A">>>>, <<<<"A">>>> }
SampleRows == { <<"1">>, <<"-", "1">>, <<"A">>, all }
SampleColumns == { <<<<"0">>>>, <<<<"1">>>>, <<<<"-", "3">>>>, <<all>> }

(***************************************************************************)
(* The result aggregator.  A line of a result file keeps what the scan      *)
(* reads of it; a table is the sequence of its rows, a row the sequence of  *)
(* the cells that '\t'.join writes.                                        *)
(***************************************************************************)
\* 'A steady state with given resolution was found.'
MarkerLine == [k |-> "marker"]
\* 'Species\tConcentration (mmol/l)'
ConcHeader == [k |-> "concHeader"]
\* 'Reaction\tFlux (mmol/s)'
FluxHeader == [k |-> "fluxHeader"]
\* a line that line.strip() empties
BlankLine == [k |-> "blank"]
\* '<name>\t<value>'
DataLine(name, value) == [k |-> "data", name |-> name, value |-> value]

\* line.split('\t')
split(line) ==
    CASE line.k = "data" -> <<line.name, line.value>>
      [] line.k = "concHeader" ->
            <<<<"S", "p", "e", "c", "i", "e", "s">>, "Concentration (mmol/l)">>
      [] line.k = "fluxHeader" ->
            <<<<"R", "e", "a", "c", "t", "i", "o", "n">>, "Flux (mmol/s)">>
      [] line.k = "marker" -> <<"A steady state with given resolution was found.">>

\* dict[name][fn] = value, with dict[name] = {} first when name is new
DictPut(dict, name, fn, value) ==
    DictSet(dict, name, DictSet(IF name \in DOMAIN dict THEN dict[name] ELSE <<>>, fn, value))

\* The loop of _get_values_from_single_file from line n on.
RECURSIVE scanFrom(_, _, _, _, _, _)
scanFrom(f, n, active, fn, conc_dict, flux_dict) ==
    IF n > Len(f)
    THEN [exit |-> "return", conc_dict |-> conc_dict, flux_dict |-> flux_dict]
    ELSE LET line == f[n]
         IN  IF active = "conc"
             THEN IF line.k = "blank"
                  THEN scanFrom(f, n + 1, "", fn, conc_dict, flux_dict)
                  ELSE IF Len(split(line)) < 2
                  THEN [exit |-> "IndexError", conc_dict |-> conc_dict,
                        flux_dict |-> flux_dict]
                  ELSE scanFrom(f, n + 1, active, fn,
                                DictPut(conc_dict, split(line)[1], fn, split(line)[2]),
                                flux_dict)
             ELSE IF active = "flux"
             THEN IF line.k = "blank"
                  THEN [exit |-> "return", conc_dict |-> conc_dict,
                        flux_dict |-> flux_dict]
                  ELSE IF Len(split(line)) < 2
                  THEN [exit |-> "IndexError", conc_dict |-> conc_dict,
                        flux_dict |-> flux_dict]
                  ELSE scanFrom(f, n + 1, active, fn, conc_dict,
                                DictPut(flux_dict, split(line)[1], fn, split(line)[2]))
             ELSE IF line.k = "concHeader"
             THEN scanFrom(f, n + 1, "conc", fn, conc_dict, flux_dict)
             ELSE IF line.k = "fluxHeader"
             THEN scanFrom(f, n + 1, "flux", fn, conc_dict, flux_dict)
             ELSE scanFrom(f, n + 1, active, fn, conc_dict, flux_dict)

\* _get_values_from_single_file
get_values_from_single_file(f, fn, conc_dict, flux_dict) ==
    IF f = <<>> \/ f[1].k # "marker"
    THEN [exit |-> "return", conc_dict |-> conc_dict, flux_dict |-> flux_dict]
    ELSE scanFrom(f, 1, "", fn, conc_dict, flux_dict)

Positions(path, c) == {n \in DOMAIN path : path[n] = c}
LastOf(S) == CHOOSE n \in S : \A m \in S : m <= n

\* os.path.basename
basename(path) ==
    IF Positions(path, "/") = {} THEN path
    ELSE SubSeq(path, LastOf(Positions(path, "/")) + 1, Len(path))

\* os.path.splitext(path)[0]: the extension starts at the last dot that follows
\* a character other than a dot.
splitextRoot(path) ==
    LET dots == {n \in Positions(path, ".") : \E m \in 1..(n - 1) : path[m] # "."}
    IN  IF dots = {} \/ Positions(path, "/") \cap {n \in DOMAIN path : n > LastOf(dots)} # {}
        THEN path
        ELSE SubSeq(path, 1, LastOf(dots) - 1)

\* The code points that order the characters of a name.
ord ==
    [c \in {".", "A", "B", "R", "S", "_", "a", "b", "c", "r", "t", "x"} |->
        CASE c = "." -> 46 [] c = "A" -> 65 [] c = "B" -> 66 [] c = "R" -> 82
          [] c = "S" -> 83 [] c = "_" -> 95 [] c = "a" -> 97 [] c = "b" -> 98
          [] c = "c" -> 99 [] c = "r" -> 114 [] c = "t" -> 116 [] c = "x" -> 120]

\* a < b of two strings
RECURSIVE StrLess(_, _)
StrLess(a, b) ==
    IF b = <<>> THEN FALSE
    ELSE IF a = <<>> THEN TRUE
    ELSE IF a[1] # b[1] THEN ord[a[1]] < ord[b[1]]
    ELSE StrLess(Tail(a), Tail(b))

\* sorted(keys)
RECURSIVE sorted(_)
sorted(keys) ==
    IF keys = {} THEN <<>>
    ELSE LET least == CHOOSE x \in keys : \A y \in keys \ {x} : StrLess(x, y)
         IN  <<least>> \o sorted(keys \ {least})

\* The loop of get_tables over the files from position n on.
RECURSIVE readFrom(_, _, _, _, _, _)
readFrom(fs, filenames, names, n, conc_dict, flux_dict) ==
    IF n > Len(filenames)
    THEN [exit |-> "return", conc_dict |-> conc_dict, flux_dict |-> flux_dict]
    ELSE LET read == get_values_from_single_file(fs[filenames[n]], names[n],
                                                 conc_dict, flux_dict)
         IN  IF read.exit # "return" THEN read
             ELSE readFrom(fs, filenames, names, n + 1, read.conc_dict, read.flux_dict)

na == "na"

\* The lines of one table: the header, then one row for each key in sorted order.
tableOf(dict, names) ==
    LET keys == sorted(DOMAIN dict)
    IN  <<<< <<>> >> \o names>>
        \o [r \in DOMAIN keys |->
               <<keys[r]>>
               \o [c \in DOMAIN names |->
                      IF names[c] \in DOMAIN dict[keys[r]]
                      THEN dict[keys[r]][names[c]]
                      ELSE na]]

get_tables(fs, filenames) ==
    LET names == [n \in DOMAIN filenames |-> splitextRoot(basename(filenames[n]))]
        read == readFrom(fs, filenames, names, 1, <<>>, <<>>)
    IN  IF read.exit # "return"
        THEN [exit |-> read.exit, value |-> None]
        ELSE [exit |-> "return",
              value |-> [conc |-> tableOf(read.conc_dict, names),
                         flux |-> tableOf(read.flux_dict, names)]]

CallGetTables ==
    /\ tables.op = "none"
    /\ tables' = Accessed("get_tables", get_tables(fileSystem, fileArgs))
    /\ UNCHANGED <<fileSystem, fileArgs>>

\* The paths and the contents of the result files.
SamplePaths ==
    { <<"a", ".", "t">>, <<"b", "/", "a", ".", "t">>, <<"b", ".", "t">> }
SampleResults ==
    { <<MarkerLine, BlankLine, ConcHeader, DataLine(<<"A">>, "1"), BlankLine,
        FluxHeader, DataLine(<<"R">>, "5"), BlankLine>>,
      <<MarkerLine, ConcHeader, DataLine(<<"B">>, "2"), DataLine(<<"A">>, "3"),
        BlankLine, FluxHeader, DataLine(<<"R">>, "7")>>,
      <<BlankLine, ConcHeader, DataLine(<<"A">>, "9")>>,
      <<MarkerLine, FluxHeader, DataLine(<<"R">>, "8"), BlankLine,
        ConcHeader, DataLine(<<"A">>, "4")>>,
      <<MarkerLine, ConcHeader, DataLine(<<"A", "B">>, "6"), BlankLine,
        ConcHeader, DataLine(<<"A">>, "1")>>,
      <<MarkerLine, ConcHeader, MarkerLine>> }

\* _get_values_from_single_file(f, fn, {}, {})
CallScan ==
    /\ scanned.op = "none"
    /\ LET read == get_values_from_single_file(resultText, "fn", <<>>, <<>>)
       IN  scanned' = Accessed("_get_values_from_single_file",
                               [exit |-> read.exit,
                                value |-> [conc_dict |-> read.conc_dict,
                                           flux_dict |-> read.flux_dict]])
    /\ UNCHANGED resultText

\* The header, data and blank lines that follow the steady-state marker.
ResultLines ==
    { ConcHeader, FluxHeader, BlankLine, DataLine(<<"A">>, "1"), DataLine(<<"B">>, "2") }
ResultTexts == {<<MarkerLine>> \o body : body \in SeqsUpTo(ResultLines, MaxResultLines)}

(***************************************************************************)
(* The sweep summarizer.  A line of a report keeps whether it holds the     *)
(* objective-value marker and what follows its first tab.                   *)
(***************************************************************************)
\* 'Objective Function Value:\t<value>'
ObjectiveLine(value) == [k |-> "objective", value |-> value]
\* 'Objective Function Value:' with no tab on the line
ObjectiveBare == [k |-> "objectiveBare"]
\* a line without the marker
OtherLine == [k |-> "other"]

txt == <<".", "t", "x", "t">>

\* filename.replace('.txt', ''): every occurrence is removed
RECURSIVE removeTxt(_)
removeTxt(filename) ==
    IF Len(filename) < Len(txt) THEN filename
    ELSE IF SubSeq(filename, 1, Len(txt)) = txt
    THEN removeTxt(SubSeq(filename, Len(txt) + 1, Len(filename)))
    ELSE <<filename[1]>> \o removeTxt(Tail(filename))

\* text.split('_')
RECURSIVE splitUnderscore(_)
splitUnderscore(text) ==
    IF Positions(text, "_") = {} THEN <<text>>
    ELSE LET p == FirstOf(Positions(text, "_"))
         IN  <<SubSeq(text, 1, p - 1)>> \o splitUnderscore(SubSeq(text, p + 1, Len(text)))

\* '_'.join(segments)
RECURSIVE joinUnderscore(_)
joinUnderscore(segments) ==
    IF segments = <<>> THEN <<>>
    ELSE IF Len(segments) = 1 THEN segments[1]
    ELSE segments[1] \o <<"_">> \o joinUnderscore(Tail(segments))

\* results[scan].append(...), with results[scan] = [] first when scan is new
appendResult(results, scan, triple) ==
    DictSet(results, scan,
            Append(IF scan \in DOMAIN results THEN results[scan] ELSE <<>>, triple))

\* for line in f: the lines of one file from line n on
RECURSIVE summarizeLines(_, _, _, _, _, _)
summarizeLines(f, n, scan, row, column, results) ==
    IF n > Len(f) THEN [exit |-> "return", results |-> results]
    ELSE IF f[n].k = "objectiveBare" THEN [exit |-> "IndexError", results |-> results]
    ELSE summarizeLines(f, n + 1, scan, row, column,
            IF f[n].k = "objective"
            THEN appendResult(results, scan, <<row, column, f[n].value>>)
            ELSE results)

\* for filename in sys.argv[1:]: the files from position n on
RECURSIVE summarizeFiles(_, _, _, _)
summarizeFiles(fs, filenames, n, results) ==
    IF n > Len(filenames) THEN [exit |-> "return", results |-> results]
    ELSE LET segments == splitUnderscore(removeTxt(filenames[n]))
         IN  IF Len(segments) < 2 THEN [exit |-> "IndexError", results |-> results]
             ELSE LET column == segments[Len(segments)]
                      row == segments[Len(segments) - 1]
                      scan == joinUnderscore(SubSeq(segments, 1, Len(segments) - 2))
                      read == summarizeLines(fs[filenames[n]], 1, scan, row, column,
                                             results)
                  IN  IF read.exit # "return" THEN read
                      ELSE summarizeFiles(fs, filenames, n + 1, read.results)

\* The module body: the summaries written, in the order they are written.
summarize(fs, filenames) ==
    IF filenames = <<>> THEN [exit |-> "help", value |-> <<>>]
    ELSE LET read == summarizeFiles(fs, filenames, 1, <<>>)
             scans == sorted(DOMAIN read.results)
         IN  IF read.exit # "return" THEN [exit |-> read.exit, value |-> <<>>]
             ELSE [exit |-> "return",
                   value |-> [n \in DOMAIN scans |->
                                 [outfile |-> scans[n] \o <<"_", "s", "u", "m", "m", "a", "r",
                                                            "y">> \o txt,
                                  triples |-> read.results[scans[n]]]]]

RunSummarizer ==
    /\ summarized.op = "none"
    /\ summarized' = Accessed("summarize", summarize(reportFiles, argv))
    /\ UNCHANGED <<argv, reportFiles>>

\* The names and the texts of the report files.
SampleReportPaths ==
    { <<"a", "_", "r", "_", "c">> \o txt,
      <<"a", "_", "b", "_", "c", "_", "r">> \o txt,
      <<"a">> \o txt \o <<"_", "r", "_", "c">> \o txt,
      <<"c">> \o txt }
SampleReportTexts ==
    { <<ObjectiveLine("1")>>,
      <<OtherLine, ObjectiveLine("2"), ObjectiveLine("3")>>,
      <<OtherLine>>,
      <<ObjectiveBare>> }

Idle == [op |-> "none", exit |-> "none", value |-> None]

\* The parts of the state a specification leaves alone.
EditorIdle ==
    /\ readable = FALSE
    /\ content = <<>>
    /\ version = None
    /\ status = "unbuilt"
    /\ reports = <<>>
    /\ last = Call("none", <<>>, -1)
    /\ ret = None

AccessorIdle == lines = <<>> /\ accessed = Idle

ConverterIdle == mylist = <<>> /\ referenceList = <<>> /\ turned = Idle

DriverIdle ==
    /\ pc = "idle"
    /\ jobarray = FALSE
    /\ objLeft = <<>> /\ objRight = <<>>
    /\ reactions = <<>> /\ metabolites = <<>>
    /\ mcatype = None
    /\ lefttype = <<>> /\ righttype = <<>>
    /\ objectiveleft = <<>> /\ objectiveright = <<>>
    /\ leftAt = 1 /\ rightAt = 1
    /\ jobNumber = 1
    /\ outfilebase = <<>>
    /\ execList = <<>>
    /\ disk = <<>>

TablesIdle == fileSystem = <<>> /\ fileArgs = <<>> /\ tables = Idle

ScanIdle == resultText = <<>> /\ scanned = Idle

SummaryIdle == argv = <<>> /\ reportFiles = <<>> /\ summarized = Idle

besidesEditor ==
    <<accessorVars, converterVars, driverVars, tableVars, scanVars, summaryVars>>
besidesAccessors ==
    <<editorVars, converterVars, driverVars, tableVars, scanVars, summaryVars>>
besidesConverter ==
    <<editorVars, accessorVars, driverVars, tableVars, scanVars, summaryVars>>
besidesDriver == <<accessorVars, converterVars, tableVars, scanVars, summaryVars>>
besidesTables ==
    <<editorVars, accessorVars, converterVars, driverVars, scanVars, summaryVars>>
besidesScan ==
    <<editorVars, accessorVars, converterVars, driverVars, tableVars, summaryVars>>
besidesSummary ==
    <<editorVars, accessorVars, converterVars, driverVars, tableVars, scanVars>>

\* The editor, driven with every call on every document.
Init ==
    /\ \/ readable = TRUE /\ content \in Documents
       \/ readable = FALSE /\ content = <<>>
    /\ version = None
    /\ status = "unbuilt"
    /\ reports = <<>>
    /\ last = Call("none", <<>>, -1)
    /\ ret = None
    /\ AccessorIdle
    /\ ConverterIdle
    /\ DriverIdle
    /\ TablesIdle
    /\ ScanIdle
    /\ SummaryIdle

Next ==
    \/ Construct /\ UNCHANGED besidesEditor
    \/ \E t \in SampleTargets :
            setMCAOptiParameters(t[1], t[2]) /\ UNCHANGED besidesEditor
    \/ \E m, w \in BOOLEAN : setOptiMinMax(m, w) /\ UNCHANGED besidesEditor
    \/ \E o \in SampleTargetTypes :
            setOptimizationTargetType(o) /\ UNCHANGED besidesEditor
    \/ \E m \in SampleMethods : setOptimizationMethod(m) /\ UNCHANGED besidesEditor
    \/ setTaskToMCA /\ UNCHANGED besidesEditor
    \/ \E f \in SampleReportNames, w \in BOOLEAN :
            setReportFileName(f, w) /\ UNCHANGED besidesEditor
    \/ \E nm \in SampleItemNames, p \in SampleParameters :
            setOptimizationItem(nm, "10", "20", "30", p) /\ UNCHANGED besidesEditor
    \/ \E nm \in SampleItemNames, p \in SampleParameters :
            delOptimizationItem(nm, p) /\ UNCHANGED besidesEditor
    \/ \E rn \in SampleItemNames : setParameter(rn, "k1", "5") /\ UNCHANGED besidesEditor
    \/ getMCAType /\ UNCHANGED besidesEditor

Spec == Init /\ [][Next]_vars

\* The read accessors, each run on every document.
InitAccessors ==
    /\ lines \in LineDocuments
    /\ accessed = Idle
    /\ EditorIdle
    /\ ConverterIdle
    /\ DriverIdle
    /\ TablesIdle
    /\ ScanIdle
    /\ SummaryIdle

NextAccessors ==
    \/ CallGetMetabolites /\ UNCHANGED besidesAccessors
    \/ CallGetCompartments /\ UNCHANGED besidesAccessors

SpecAccessors == InitAccessors /\ [][NextAccessors]_vars

\* getCompartments, getTitle and getReactions, each run on every document.
InitReaders ==
    /\ lines \in ReaderDocuments
    /\ accessed = Idle
    /\ EditorIdle
    /\ ConverterIdle
    /\ DriverIdle
    /\ TablesIdle
    /\ ScanIdle
    /\ SummaryIdle

besidesAccessorsAndReports ==
    <<readable, content, version, status, last, ret, converterVars, driverVars, tableVars,
      scanVars, summaryVars>>

NextReaders ==
    \/ CallGetCompartments /\ UNCHANGED besidesAccessors
    \/ CallGetTitle /\ UNCHANGED besidesAccessorsAndReports
    \/ CallGetReactions /\ UNCHANGED besidesAccessorsAndReports

SpecReaders == InitReaders /\ [][NextReaders]_vars

\* turnToNumbers on every list and every tuple of names.
InitTurnToNumbers ==
    /\ mylist \in SeqsUpTo(SampleElements, MaxList)
    /\ referenceList \in SeqsUpTo(SampleNames, MaxRefs)
    /\ turned = Idle
    /\ EditorIdle
    /\ AccessorIdle
    /\ DriverIdle
    /\ TablesIdle
    /\ ScanIdle
    /\ SummaryIdle

NextTurnToNumbers == CallTurnToNumbers /\ UNCHANGED besidesConverter

SpecTurnToNumbers == InitTurnToNumbers /\ [][NextTurnToNumbers]_vars

\* The sweep driver, started on every document with every request.
InitSweep ==
    /\ \/ readable = TRUE /\ content \in SweepDocuments
       \/ readable = FALSE /\ content = <<>>
    /\ version = None
    /\ status = "unbuilt"
    /\ reports = <<>>
    /\ last = Call("none", <<>>, -1)
    /\ ret = None
    /\ pc = "start"
    /\ jobarray \in BOOLEAN
    /\ objLeft \in SeqsUpTo(SampleRows, MaxRequested) \ {<<>>}
    /\ objRight \in SampleColumns
    /\ reactions \in SampleReactions
    /\ metabolites \in SampleMetabolites
    /\ mcatype = None
    /\ lefttype = <<>> /\ righttype = <<>>
    /\ objectiveleft = <<>> /\ objectiveright = <<>>
    /\ leftAt = 1 /\ rightAt = 1
    /\ jobNumber = 1
    /\ outfilebase = <<>>
    /\ execList = <<>>
    /\ disk = <<>>
    /\ AccessorIdle
    /\ ConverterIdle
    /\ TablesIdle
    /\ ScanIdle
    /\ SummaryIdle

NextSweep ==
    \/ DriverConstruct /\ UNCHANGED besidesDriver
    \/ DriverGetMCAType /\ UNCHANGED besidesDriver
    \/ DriverDispatch /\ UNCHANGED besidesDriver
    \/ DriverTurnToNumbers /\ UNCHANGED besidesDriver
    \/ LoopNextLeft /\ UNCHANGED besidesDriver
    \/ LoopSkipLeft /\ UNCHANGED besidesDriver
    \/ LoopSkipRight /\ UNCHANGED besidesDriver
    \/ LoopName /\ UNCHANGED besidesDriver
    \/ RoundSetMCAOptiParameters /\ UNCHANGED besidesDriver
    \/ RoundSetTaskToMCA /\ UNCHANGED besidesDriver
    \/ RoundSetReportFileName /\ UNCHANGED besidesDriver
    \/ RoundSave /\ UNCHANGED besidesDriver

SpecSweep == InitSweep /\ [][NextSweep]_vars

\* get_tables on every list of paths over every file system.
InitTables ==
    /\ fileSystem \in [SamplePaths -> SampleResults]
    /\ fileArgs \in SeqsUpTo(SamplePaths, MaxFiles)
    /\ tables = Idle
    /\ EditorIdle
    /\ AccessorIdle
    /\ ConverterIdle
    /\ DriverIdle
    /\ ScanIdle
    /\ SummaryIdle

NextTables == CallGetTables /\ UNCHANGED besidesTables

SpecTables == InitTables /\ [][NextTables]_vars

\* The scan of one result file, on every text that starts with the marker.
InitScan ==
    /\ resultText \in ResultTexts
    /\ scanned = Idle
    /\ EditorIdle
    /\ AccessorIdle
    /\ ConverterIdle
    /\ DriverIdle
    /\ TablesIdle
    /\ SummaryIdle

NextScan == CallScan /\ UNCHANGED besidesScan

SpecScan == InitScan /\ [][NextScan]_vars

\* The summarizer, run on every list of report files.
InitSummary ==
    /\ argv \in SeqsUpTo(SampleReportPaths, MaxReports)
    /\ reportFiles \in [SampleReportPaths -> SampleReportTexts]
    /\ summarized = Idle
    /\ EditorIdle
    /\ AccessorIdle
    /\ ConverterIdle
    /\ DriverIdle
    /\ TablesIdle
    /\ ScanIdle

NextSummary == RunSummarizer /\ UNCHANGED besidesSummary

SpecSummary == InitSummary /\ [][NextSummary]_vars

\* delOptimizationItem on every document of optimization items.
InitItems ==
    /\ \/ readable = TRUE /\ content \in ItemDocuments
       \/ readable = FALSE /\ content = <<>>
    /\ version = None
    /\ status = "unbuilt"
    /\ reports = <<>>
    /\ last = Call("none", <<>>, -1)
    /\ ret = None
    /\ AccessorIdle
    /\ ConverterIdle
    /\ DriverIdle
    /\ TablesIdle
    /\ ScanIdle
    /\ SummaryIdle

NextItems ==
    \/ Construct /\ UNCHANGED besidesEditor
    \/ \E nm \in SampleItemPatterns, p \in SampleParameters :
            delOptimizationItem(nm, p) /\ UNCHANGED besidesEditor

SpecItems == InitItems /\ [][NextItems]_vars

\* The calls that take a file name, on every document of report targets.
InitFileNames ==
    /\ \/ readable = TRUE /\ content \in TargetDocuments
       \/ readable = FALSE /\ content = <<>>
    /\ version = None
    /\ status = "unbuilt"
    /\ reports = <<>>
    /\ last = Call("none", <<>>, -1)
    /\ ret = None
    /\ AccessorIdle
    /\ ConverterIdle
    /\ DriverIdle
    /\ TablesIdle
    /\ ScanIdle
    /\ SummaryIdle

besidesEditorAndDisk ==
    <<accessorVars, converterVars, tableVars, scanVars, summaryVars, pc, driverInputs,
      driverTypes, objectiveleft, objectiveright, leftAt, rightAt, jobNumber,
      outfilebase, execList>>

NextFileNames ==
    \/ Construct /\ UNCHANGED besidesEditor
    \/ \E f \in SampleFileNames, w \in BOOLEAN :
            setReportFileName(f, w) /\ UNCHANGED besidesEditor
    \/ \E f \in SampleFileNames :
            /\ Cardinality(DOMAIN disk) < MaxSaves
            /\ saveCopasiFile(f)
            /\ UNCHANGED besidesEditorAndDisk

SpecFileNames == InitFileNames /\ [][NextFileNames]_vars

(***************************************************************************)
(* Properties of the editor.                                               *)
(***************************************************************************)
Mutators ==
    {"setMCAOptiParameters", "setOptiMinMax", "setOptimizationTargetType",
     "setOptimizationMethod", "setTaskToMCA", "setReportFileName",
     "setOptimizationItem", "delOptimizationItem", "setParameter"}

NonFatalReport(rep) == Len(rep) = 1 /\ ~rep[1].fatal
FatalReport(rep) == Len(rep) = 1 /\ rep[1].fatal

\* C1, as stated: setMCAOptiParameters, setOptimizationTargetType and
\* delOptimizationItem end in the fatal state, with the content not replaced,
\* whenever their pattern matches more than once.
C1_AmbiguousMatchIsFatal ==
    [][ ( /\ status = "ready"
          /\ last'.op \in {"setMCAOptiParameters", "setOptimizationTargetType",
                           "delOptimizationItem"}
          /\ last'.n > 1 )
        => (status' = "fatal" /\ content' = content) ]_vars

\* C1, amended: on more than one match only delOptimizationItem ends in the
\* fatal state with the content not replaced; setMCAOptiParameters and
\* setOptimizationTargetType emit one non-fatal report, return, and the content
\* holds the new value in every matched region.
C1_AmbiguousMatchPolicy ==
    [][ (status = "ready" /\ last'.n > 1) =>
        /\ last'.op = "delOptimizationItem" =>
              (status' = "fatal" /\ FatalReport(reports') /\ content' = content)
        /\ last'.op = "setMCAOptiParameters" =>
              /\ status' = "ready" /\ NonFatalReport(reports')
              /\ Len(content') = Len(content)
              /\ \A i \in DOMAIN content :
                    (content[i].k \in {"pair", "array"}
                        /\ AllDigits(content[i].l) /\ AllDigits(content[i].r))
                    => (content'[i].l = str(last'.args[1])
                        /\ content'[i].r = str(last'.args[2]))
        /\ last'.op = "setOptimizationTargetType" =>
              /\ status' = "ready" /\ NonFatalReport(reports')
              /\ Len(content') = Len(content)
              /\ \A i \in DOMAIN content :
                    (content[i].k = "array"
                        /\ SomeDigits(content[i].l) /\ SomeDigits(content[i].r))
                    => content'[i].phrase = types[last'.args[1]] ]_vars

\* C1, witness: a delOptimizationItem call that found two items has ended fatally.
C1_Witness ==
    last.op = "delOptimizationItem" /\ last.n > 1 /\ status = "fatal"

\* C2, as stated: every mutator whose pattern matches zero times ends in the
\* fatal state and leaves the content unchanged.
C2_ZeroMatchesIsFatal ==
    [][ (status = "ready" /\ last'.op \in Mutators /\ last'.n = 0)
        => (status' = "fatal" /\ content' = content) ]_vars

\* C2, amended: every mutator but setParameter ends in the fatal state, with the
\* content unchanged, when its pattern matches zero times; setParameter emits one
\* non-fatal report and returns with the content unchanged.
C2_ZeroMatchesPolicy ==
    [][ (status = "ready" /\ last'.op \in Mutators /\ last'.n = 0) =>
        /\ content' = content
        /\ IF last'.op = "setParameter"
           THEN status' = "ready" /\ NonFatalReport(reports')
           ELSE status' = "fatal" /\ FatalReport(reports') ]_vars

\* C2, witness: setTaskToMCA found no Subtask parameter and ended fatally.
C2_Witness ==
    last.op = "setTaskToMCA" /\ last.n = 0 /\ status = "fatal"

\* C3: getMCAType returns ccc, e, fcc or None on every document and never fails.
C3_getMCATypeNeverFails ==
    last.op = "getMCAType" => (status = "ready" /\ ret \in {"ccc", "e", "fcc", None})

\* C4, as stated: constructing an editor over a document without the version
\* marker ends in the fatal state.
C4_MissingVersionIsFatal ==
    (last.op = "__init__" /\ ~HasVersionMarker(content)) => status = "fatal"

\* C4, amended: constructing an editor over a readable document without the
\* version marker is not fatal: two non-fatal reports are emitted (version
\* undetermined, version unsupported), the version is None and the editor is ready.
C4_MissingVersionIsReported ==
    (last.op = "__init__" /\ readable /\ ~HasVersionMarker(content))
    => /\ status = "ready"
       /\ version = None
       /\ Len(reports) = 2
       /\ \A i \in DOMAIN reports : ~reports[i].fatal

\* C4, witness: an editor has been constructed over a non-empty document that
\* holds no version marker.
C4_Witness ==
    /\ last.op = "__init__" /\ readable
    /\ content # <<>> /\ ~HasVersionMarker(content)
    /\ status = "ready"

\* The parts of a region a mutator is meant to write.
TargetedParts(op) ==
    CASE op = "setMCAOptiParameters" -> {"l", "r"}
      [] op = "setOptiMinMax" -> {"value"}
      [] op = "setOptimizationTargetType" -> {"phrase"}
      [] op = "setOptimizationMethod" -> {"method"}
      [] op = "setTaskToMCA" -> {"task"}
      [] op = "setReportFileName" -> {"value"}
      [] op = "setOptimizationItem" -> {"lower", "start", "upper"}
      [] op = "setParameter" -> {"value"}
      [] OTHER -> {}

OnlyTargetedParts(a, b, op) ==
    /\ DOMAIN a = DOMAIN b
    /\ \A f \in DOMAIN a \ TargetedParts(op) : a[f] = b[f]

RemoveAt(doc, i) == [j \in 1..(Len(doc) - 1) |-> IF j < i THEN doc[j] ELSE doc[j + 1]]

SingleFieldChange(pre, post, op) ==
    IF op = "delOptimizationItem"
    THEN \E i \in DOMAIN pre : post = RemoveAt(pre, i)
    ELSE /\ Len(post) = Len(pre)
         /\ Cardinality({i \in DOMAIN pre : post[i] # pre[i]}) <= 1
         /\ \A i \in DOMAIN pre : OnlyTargetedParts(pre[i], post[i], op)

\* C5: every mutator call that returns normally changes only the single field it
\* targets; every other field of the document is unchanged.
C5_OnlyTargetedFieldChanges ==
    [][ (status = "ready" /\ status' = "ready" /\ last'.op \in Mutators)
        => SingleFieldChange(content, content', last'.op) ]_vars

\* C8: setReportFileName(n) right after a setReportFileName(n) that returned
\* normally returns normally too and leaves the content as it was.
C8_SetReportFileNameIdempotent ==
    [][ ( /\ status = "ready"
          /\ last.op = "setReportFileName"
          /\ last'.op = "setReportFileName"
          /\ last'.args[1] = last.args[1] )
        => (status' = "ready" /\ content' = content) ]_vars

(***************************************************************************)
(* Properties of the read accessors.                                       *)
(***************************************************************************)
\* The metabolites a document declares with simulationType "reactions", whatever
\* line they stand on.
DeclaredAnywhere(doc) == {n \in DOMAIN doc : MetaboliteMatch(doc[n])}

\* The display name a reference line resolves to, as a sequence of no or one name.
Resolved(doc, line) ==
    IF line.tag = "StateTemplateVariable" /\ line.kind = "Metabolite"
       /\ \E n \in DeclaredAnywhere(doc) : doc[n].key = line.key
    THEN LET n == CHOOSE n \in DeclaredAnywhere(doc) : doc[n].key = line.key
             compartments == getCompartments(doc)
         IN  <<DisplayName(doc[n], compartments, Cardinality(DOMAIN compartments) > 1)>>
    ELSE <<>>

RECURSIVE ReferencesInOrder(_, _)
ReferencesInOrder(doc, n) ==
    IF n > Len(doc) THEN <<>>
    ELSE Resolved(doc, doc[n]) \o ReferencesInOrder(doc, n + 1)

\* C6: getMetabolites returns, wherever the declaration lines stand relative to
\* the StateTemplateVariable lines, the display names of the references in the
\* order they appear, restricted to metabolites declared anywhere in the
\* document with simulationType "reactions", and never fails.
C6_getMetabolitesIsOrderIndependent ==
    accessed.op = "getMetabolites" =>
        /\ accessed.exit = "return"
        /\ accessed.value = ReferencesInOrder(lines, 1)

(***************************************************************************)
(* Properties of turnToNumbers.                                            *)
(***************************************************************************)
\* C7: turnToNumbers is fatal exactly when some element that int() does not
\* accept is not in the reference tuple; otherwise it returns a list of the same
\* length whose element n is int(mylist[n]) when int() accepts mylist[n], and
\* else the zero-based position of the first occurrence of mylist[n] in the
\* reference tuple.
C7_turnToNumbers ==
    turned.op = "turnToNumbers" =>
        LET numeric(x) == int(x).ok
            missing == \E n \in DOMAIN mylist :
                          /\ ~numeric(mylist[n])
                          /\ \A j \in DOMAIN referenceList : referenceList[j] # mylist[n]
        IN  /\ turned.exit = "fatal" <=> missing
            /\ turned.exit = "return" <=> ~missing
            /\ ~missing =>
                  /\ Len(turned.value) = Len(mylist)
                  /\ \A n \in DOMAIN mylist :
                        IF numeric(mylist[n])
                        THEN turned.value[n] = int(mylist[n]).value
                        ELSE \E j \in DOMAIN referenceList :
                                /\ turned.value[n] = j - 1
                                /\ referenceList[j] = mylist[n]
                                /\ \A k \in 1..(j - 1) : referenceList[k] # mylist[n]

\* A returned call that parsed one element and looked another up in a tuple
\* holding that name twice.
C7_Witness ==
    /\ turned.op = "turnToNumbers" /\ turned.exit = "return"
    /\ \E n \in DOMAIN mylist : int(mylist[n]).ok /\ int(mylist[n]).value < 0
    /\ \E n \in DOMAIN mylist :
          /\ ~int(mylist[n]).ok
          /\ \E j, k \in DOMAIN referenceList :
                j # k /\ referenceList[j] = mylist[n] /\ referenceList[k] = mylist[n]

(***************************************************************************)
(* Properties of the sweep driver.                                         *)
(***************************************************************************)
\* C9: no two rounds of a sweep that reach saveCopasiFile write to the same
\* sanitized path.
C9_RoundsWriteDistinctPaths ==
    \A a, b \in DOMAIN execList : a # b => execList[a] # execList[b]

(***************************************************************************)
(* Properties of the result aggregator.                                    *)
(***************************************************************************)
\* What one file contributes on its own: the scan of that file alone.
Contribution(f) == get_values_from_single_file(f, "self", <<>>, <<>>)

\* The cell of entity e and the file f: the value f itself holds for e, else na.
OwnCell(own, e) == IF e \in DOMAIN own THEN own[e]["self"] ELSE na

\* The rows of a table are the header and one row for each entity that some
\* file holds, in sorted order, and row e holds in column c the value the c-th
\* file itself contributed.
OwnTable(table, which) ==
    LET own == [c \in DOMAIN fileArgs |-> Contribution(fileSystem[fileArgs[c]])[which]]
        entities == UNION {DOMAIN own[c] : c \in DOMAIN fileArgs}
    IN  /\ Len(table) = 1 + Cardinality(entities)
        /\ \A r \in 2..Len(table) :
              /\ table[r][1] \in entities
              /\ r > 2 => StrLess(table[r - 1][1], table[r][1])
              /\ Len(table[r]) = 1 + Len(fileArgs)
              /\ \A c \in DOMAIN fileArgs :
                    table[r][c + 1] = OwnCell(own[c], table[r][1])

\* C10: the tables get_tables returns hold one row for each entity some file
\* holds, in lexicographic order, and one column for each file in the order
\* supplied; the cell of an entity and the i-th file is the value that file
\* itself contributed, and na exactly when it contributed none.
C10_CellsHoldOwnValues ==
    (tables.op = "get_tables" /\ tables.exit = "return") =>
        /\ OwnTable(tables.value.conc, "conc_dict")
        /\ OwnTable(tables.value.flux, "flux_dict")

(***************************************************************************)
(* Properties of the scan of one result file.                              *)
(***************************************************************************)
Headers == {"concHeader", "fluxHeader"}

\* Line n stands inside a block: a header precedes it with no blank line between.
InBlock(f, n) ==
    \E p \in 1..(n - 1) :
        f[p].k \in Headers /\ \A m \in (p + 1)..(n - 1) : f[m].k # "blank"

\* The lines of the first block a header of the given kind opens.
FirstBlock(f, kind) ==
    LET openers == {n \in DOMAIN f : f[n].k = kind /\ ~InBlock(f, n)}
    IN  IF openers = {} THEN {}
        ELSE LET p == FirstOf(openers)
             IN  {n \in DOMAIN f : n > p /\ \A m \in (p + 1)..n : f[m].k # "blank"}

\* Every entry of the table is a pair some line of the block holds.
FromBlock(f, dict, block) ==
    \A name \in DOMAIN dict :
        \E n \in block : split(f[n])[1] = name /\ split(f[n])[2] = dict[name]["fn"]

\* C11: the scan of one result file adds to the concentration table only lines
\* of the first concentration block and to the flux table only lines of the
\* first flux block; once a block is closed by a blank line no later line is
\* added to its table.
C11_AtMostOneBlockEach ==
    scanned.op = "_get_values_from_single_file" =>
        /\ scanned.exit = "return"
        /\ FromBlock(resultText, scanned.value.conc_dict,
                     FirstBlock(resultText, "concHeader"))
        /\ FromBlock(resultText, scanned.value.flux_dict,
                     FirstBlock(resultText, "fluxHeader"))

(***************************************************************************)
(* Properties of the sweep summarizer.                                     *)
(***************************************************************************)
\* The name without its .txt ending.
Stem(filename) == SubSeq(filename, 1, Len(filename) - Len(txt))

\* <scanId>_<row>_<column>.txt
Conforming(filename) ==
    /\ Len(filename) >= Len(txt)
    /\ SubSeq(filename, Len(filename) - Len(txt) + 1, Len(filename)) = txt
    /\ Cardinality(Positions(Stem(filename), "_")) >= 2

\* The positions of the last two underscores of the stem.
LastUnderscore(filename) == LastOf(Positions(Stem(filename), "_"))
RowUnderscore(filename) ==
    LastOf(Positions(Stem(filename), "_") \ {LastUnderscore(filename)})

ScanIdOf(filename) == SubSeq(filename, 1, RowUnderscore(filename) - 1)
RowOf(filename) ==
    SubSeq(filename, RowUnderscore(filename) + 1, LastUnderscore(filename) - 1)
ColumnOf(filename) ==
    SubSeq(filename, LastUnderscore(filename) + 1, Len(Stem(filename)))

\* The triples of the marker lines of one file, in line order.
RECURSIVE TriplesOfLines(_, _)
TriplesOfLines(filename, f) ==
    IF f = <<>> THEN <<>>
    ELSE (IF f[1].k = "objective"
          THEN <<<<RowOf(filename), ColumnOf(filename), f[1].value>>>>
          ELSE <<>>)
         \o TriplesOfLines(filename, Tail(f))

\* The triples of one scan over the files from position n on, in file order.
RECURSIVE TriplesOfScan(_, _)
TriplesOfScan(scan, n) ==
    IF n > Len(argv) THEN <<>>
    ELSE (IF ScanIdOf(argv[n]) = scan
          THEN TriplesOfLines(argv[n], reportFiles[argv[n]])
          ELSE <<>>)
         \o TriplesOfScan(scan, n + 1)

\* C12: for input files named <scanId>_<row>_<column>.txt whose marker lines
\* hold a value, the summarizer writes one summary for each scan id that has a
\* triple, in lexicographic order of the scan ids, and each summary lists the
\* (row, column, value) triples of its scan in input-file order and line order.
C12_SummariesListEveryTriple ==
    ( /\ summarized.op = "summarize"
      /\ argv # <<>>
      /\ \A n \in DOMAIN argv :
            /\ Conforming(argv[n])
            /\ \A m \in DOMAIN reportFiles[argv[n]] :
                  reportFiles[argv[n]][m].k # "objectiveBare" )
    => /\ summarized.exit = "return"
       /\ LET written == summarized.value
              scans == {ScanIdOf(argv[n]) : n \in DOMAIN argv}
              filled == {scan \in scans : TriplesOfScan(scan, 1) # <<>>}
          IN  /\ Len(written) = Cardinality(filled)
              /\ \A w \in DOMAIN written :
                    \E scan \in filled :
                        /\ written[w].outfile
                              = scan \o <<"_", "s", "u", "m", "m", "a", "r", "y">> \o txt
                        /\ written[w].triples = TriplesOfScan(scan, 1)
              /\ \A v, w \in DOMAIN written :
                    v < w => StrLess(SubSeq(written[v].outfile, 1,
                                            Len(written[v].outfile) - Len(txt) - 8),
                                     SubSeq(written[w].outfile, 1,
                                            Len(written[w].outfile) - Len(txt) - 8))

(***************************************************************************)
(* Properties of delOptimizationItem.                                      *)
(***************************************************************************)
\* The optimization item blocks of a document for a name, and for a parameter
\* when one is given.
BlocksFor(doc, name, parameter) ==
    {i \in DOMAIN doc :
        /\ doc[i].k = "item"
        /\ doc[i].name = name
        /\ parameter # None => doc[i].parameter = parameter}

\* C13: delOptimizationItem(name, parameter) is fatal and leaves the content as
\* it was when the document holds no block for that name or exactly two; when
\* it holds exactly one, the call returns and the content is the previous
\* content without that block, everything else kept in order.
C13_delOptimizationItemRemovesTheBlock ==
    [][ (status = "ready" /\ last'.op = "delOptimizationItem")
        => LET blocks == BlocksFor(content, last'.args[1], last'.args[2])
           IN  /\ Cardinality(blocks) \in {0, 2}
                    => status' = "fatal" /\ content' = content
               /\ Cardinality(blocks) = 1
                    => /\ status' = "ready"
                       /\ content' = RemoveAt(content, FirstOf(blocks)) ]_vars

(***************************************************************************)
(* Properties of the file names.                                           *)
(***************************************************************************)
\* [A-Za-z0-9._/]
PortableChars == DigitChars \cup AsciiLetters \cup keepcharacters

\* C14: every file name the editor has embedded in the document or used as a
\* path on disk consists of characters of [A-Za-z0-9._/] only.
C14_FileNamesArePortable ==
    /\ \A i \in DOMAIN content :
          content[i].k = "target" =>
             \A n \in DOMAIN content[i].value : content[i].value[n] \in PortableChars
    /\ \A path \in DOMAIN disk : \A n \in DOMAIN path : path[n] \in PortableChars

\* The content with the value of every matching target attribute replaced.
AllTargetsReplaced(doc, name) ==
    [i \in DOMAIN doc |->
        IF ReportTargetMatch(doc[i]) THEN [doc[i] EXCEPT !.value = name] ELSE doc[i]]

SeveralTargets(doc) == Cardinality({i \in DOMAIN doc : ReportTargetMatch(doc[i])}) > 1

FirstModelLine ==
    IF \E n \in DOMAIN lines : HasModelTag(lines[n])
    THEN CHOOSE n \in DOMAIN lines :
            HasModelTag(lines[n]) /\ \A m \in 1..(n - 1) : ~HasModelTag(lines[m])
    ELSE 0

\* C15: getTitle never ends in a failure; on a document without a title to
\* read (no Model line, or a Model line without a name) it reports a non-fatal
\* problem and returns the placeholder, and otherwise it returns the name.
C15_getTitleToleratesMissingTitle ==
    accessed.op = "getTitle"
    => /\ accessed.exit = "return"
       /\ IF FirstModelLine = 0 \/ lines[FirstModelLine].name = ""
          THEN accessed.value = "!No title found!" /\ NonFatalReport(reports)
          ELSE accessed.value = lines[FirstModelLine].name /\ reports = <<>>

\* '<Compartment' in line
HasCompartmentTag(line) == line.tag \in {"Compartment", "CompartmentGlyph"}
TaggedCompartments == {n \in DOMAIN lines : HasCompartmentTag(lines[n])}
MatchedCompartments ==
    {n \in TaggedCompartments : lines[n].tag = "Compartment" /\ lines[n].name # ""}

\* C17 as stated: getCompartments returns exactly one entry per line that
\* carries the compartment tag, keyed by the declared key.
C17_OneEntryPerDeclaration ==
    accessed.op = "getCompartments"
    => /\ Cardinality(DOMAIN accessed.value) = Cardinality(TaggedCompartments)
       /\ DOMAIN accessed.value = {lines[n].key : n \in TaggedCompartments}

\* C17: getCompartments returns one entry per distinct key among the lines
\* that carry the compartment tag and match the key/name pattern; the entry of a
\* key holds the name of the last such line, and a tagged line the pattern does
\* not match adds nothing.  The mapping has as many entries as tagged lines when
\* every tagged line matches and no key is declared twice.
C17_OneEntryPerMatchedKey ==
    accessed.op = "getCompartments"
    => /\ accessed.exit = "return"
       /\ DOMAIN accessed.value = {lines[n].key : n \in MatchedCompartments}
       /\ \A n \in MatchedCompartments :
             (\A m \in MatchedCompartments : m > n => lines[m].key # lines[n].key)
                => accessed.value[lines[n].key] = lines[n].name
       /\ ( /\ MatchedCompartments = TaggedCompartments
            /\ \A m, n \in TaggedCompartments : lines[m].key = lines[n].key => m = n )
          => Cardinality(DOMAIN accessed.value) = Cardinality(TaggedCompartments)

\* getCompartments has returned one entry for a key that two lines declare with
\* different names: fewer entries than tagged lines, holding the later name.
C17_Witness ==
    /\ accessed.op = "getCompartments"
    /\ Cardinality(DOMAIN accessed.value) < Cardinality(TaggedCompartments)
    /\ \E m, n \in MatchedCompartments :
          /\ m < n
          /\ lines[m].key = lines[n].key
          /\ lines[m].name # lines[n].name
          /\ accessed.value[lines[n].key] = lines[n].name

TaggedReactions == SelectSeq(lines, HasReactionTag)

\* C18: getReactions ends fatally exactly when some line carrying the reaction
\* tag has no key/name match; otherwise it returns the names of the lines that
\* carry the tag, one per line, in the order the lines are written.
C18_getReactions ==
    accessed.op = "getReactions"
    => /\ accessed.exit \in {"return", "fatal"}
       /\ accessed.exit = "fatal"
             <=> \E n \in DOMAIN TaggedReactions : ~ReactionMatch(TaggedReactions[n])
       /\ accessed.exit = "fatal" => FatalReport(reports)
       /\ accessed.exit = "return"
             => /\ Len(accessed.value) = Len(TaggedReactions)
                /\ \A n \in DOMAIN TaggedReactions :
                      accessed.value[n] = TaggedReactions[n].name
                /\ reports = <<>>

\* getReactions has returned two different names in the order of their lines.
C18_Witness ==
    /\ accessed.op = "getReactions"
    /\ accessed.exit = "return"
    /\ Len(accessed.value) = 2
    /\ accessed.value[1] # accessed.value[2]
    /\ \E m, n \in DOMAIN lines :
          /\ m < n
          /\ HasReactionTag(lines[m]) /\ lines[m].name = accessed.value[1]
          /\ HasReactionTag(lines[n]) /\ lines[n].name = accessed.value[2]

\* getReactions has ended fatally at a tagged line without a key/name match.
C18_WitnessFatal ==
    /\ accessed.op = "getReactions"
    /\ accessed.exit = "fatal"
    /\ \E n \in DOMAIN lines : HasReactionTag(lines[n]) /\ ~ReactionMatch(lines[n])

(***************************************************************************)
(* Properties of the rounds of the sweep.                                  *)
(***************************************************************************)
RoundCalls == {"setMCAOptiParameters", "setTaskToMCA", "setReportFileName", "saveCopasiFile"}

\* C19: a (row, column) pair that reaches setMCAOptiParameters and the calls
\* after it satisfies 0 <= row < len(lefttype) and 0 <= column < len(righttype).
C19_RoundsStayInRange ==
    pc \in RoundCalls
    => /\ 0 <= objleft /\ objleft < Len(lefttype)
       /\ 0 <= objright /\ objright < Len(righttype)

\* The content holds the round's pair in every bracketed index pair and the
\* round's report name in every target attribute.
HoldsRound(doc, row, column, name) ==
    \A n \in DOMAIN doc :
       /\ doc[n].k \in {"pair", "array"} => doc[n].l = str(row) /\ doc[n].r = str(column)
       /\ doc[n].k = "target" => doc[n].value = name

\* C20: the content a round saves holds that round's pair in every bracketed
\* index pair and that round's sanitized report name in every target attribute,
\* and once a round has been saved the setMCAOptiParameters, setTaskToMCA and
\* setReportFileName of every later round match at least once.
C20_RoundsLeaveTheDocumentMutable ==
    [][ /\ (pc = "saveCopasiFile" /\ status' = "ready")
           => /\ ret' \in DOMAIN disk'
              /\ HoldsRound(disk'[ret'], objleft, objright,
                            getValidFilename(outfilebase \o <<".", "t", "x", "t">>))
        /\ (pc \in {"setMCAOptiParameters", "setTaskToMCA", "setReportFileName"}
              /\ execList # <<>>)
           => status' = "ready" ]_vars

====
